---- MODULE Spec2Model ----
(***************************************************************************)
(* mcjoin: the group registry built by main() from the positional          *)
(* [SOURCE,]GROUP[+NUM] arguments, the status history kept per group, and  *)
(* the signal driven run loop of loop().                                   *)
(*                                                                         *)
(* Text is modelled as sequences of one-character strings, C strings as    *)
(* the characters up to the first NUL of a char array, in_addr / in6_addr  *)
(* as their bytes in network order.  TLC integers are 32 bit signed, so    *)
(* 32 bit unsigned arithmetic is carried out on 16 bit halves.             *)
(***************************************************************************)
EXTENDS Integers, Sequences, FiniteSets, TLC

(***************************************************************************)
(* Sizes.  mcjoin.h and addr.h are not part of the source at hand; the     *)
(* array sizes are scaled down, their relations are kept.                  *)
(***************************************************************************)
\* struct gr groups[MAX_NUM_GROUPS] (2048 in the program, scaled)
MAX_NUM_GROUPS == 5
\* char status[STATUS_HISTORY] (scaled)
STATUS_HISTORY == 3
\* index of the most recent slot; status[STATUS_HISTORY - 1] is the terminator
STATUS_POS == STATUS_HISTORY - 2
\* INET6_ADDRSTRLEN
INET_ADDRSTR_LEN == 46
\* sizeof(struct sockaddr_in6), the size handed to inet_ntop() for IPv6
SizeofSockaddrIn6 == 28
\* sizeof(struct sockaddr_in), the size handed to inet_ntop() for IPv4
SizeofSockaddrIn == 16

NUL == ""
AF_INET == 2
AF_INET6 == 10

(***************************************************************************)
(* Characters and C strings                                                *)
(***************************************************************************)
DecChars == <<"0", "1", "2", "3", "4", "5", "6", "7", "8", "9">>
HexChars == DecChars \o <<"a", "b", "c", "d", "e", "f">>

IsDigit(c) == \E d \in 1..10 : DecChars[d] = c
IsXDigit(c) == \E d \in 1..16 : HexChars[d] = c
DigitVal(c) == (CHOOSE d \in 1..16 : HexChars[d] = c) - 1

\* index of the first occurrence of c in text t, 0 when there is none
strchr(t, c) ==
    IF \E k \in 1..Len(t) : t[k] = c
    THEN CHOOSE k \in 1..Len(t) : t[k] = c /\ \A m \in 1..(k - 1) : t[m] # c
    ELSE 0

\* the C string that starts at offset off (0-based) of char array b
CStr(b, off) ==
    LET rest == SubSeq(b, off + 1, Len(b))
        z == strchr(rest, NUL)
    IN  IF z = 0 THEN rest ELSE SubSeq(rest, 1, z - 1)

\* char array b after writing the C string t (and its NUL) at offset 0
StrWrite(b, t) ==
    LET w == t \o <<NUL>>
    IN  IF Len(w) >= Len(b) THEN w ELSE w \o SubSeq(b, Len(w) + 1, Len(b))

\* strlcpy(dst, src, size) into a fresh array: at most size - 1 characters
strlcpy(t, size) ==
    (IF Len(t) > size - 1 THEN SubSeq(t, 1, size - 1) ELSE t) \o <<NUL>>

RECURSIVE DigitsVal(_, _, _)
\* value of the leading decimal digits of t from index k on
DigitsVal(t, k, acc) ==
    IF k > Len(t) \/ ~IsDigit(t[k]) THEN acc
    ELSE DigitsVal(t, k + 1, acc * 10 + DigitVal(t[k]))

\* atoi(): optional sign, then the leading digits; 0 when there are none
atoi(t) ==
    IF Len(t) >= 1 /\ t[1] = "-" THEN 0 - DigitsVal(t, 2, 0)
    ELSE IF Len(t) >= 1 /\ t[1] = "+" THEN DigitsVal(t, 2, 0)
    ELSE DigitsVal(t, 1, 0)

RECURSIVE DecText(_)
\* "%d" of n >= 0
DecText(n) ==
    IF n < 10 THEN <<DecChars[n + 1]>>
    ELSE DecText(n \div 10) \o <<DecChars[(n % 10) + 1]>>

RECURSIVE HexText(_)
\* "%x" of n >= 0
HexText(n) ==
    IF n < 16 THEN <<HexChars[n + 1]>>
    ELSE HexText(n \div 16) \o <<HexChars[(n % 16) + 1]>>

(***************************************************************************)
(* inet_pton() and inet_ntop()                                             *)
(***************************************************************************)
NoAddr == <<>>

RECURSIVE Pton4(_, _, _, _, _)
\* inet_pton(AF_INET, ...): dotted quad, four decimal octets <= 255 without
\* leading zeros; the bytes done, the octet in progress, whether it has a digit
Pton4(t, k, done, cur, saw) ==
    IF k > Len(t)
    THEN IF saw /\ Len(done) = 3 THEN Append(done, cur) ELSE NoAddr
    ELSE IF IsDigit(t[k])
         THEN LET new == cur * 10 + DigitVal(t[k])
              IN  IF (saw /\ cur = 0) \/ new > 255 THEN NoAddr
                  ELSE Pton4(t, k + 1, done, new, TRUE)
         ELSE IF t[k] = "." /\ saw
              THEN IF Len(done) = 3 THEN NoAddr
                   ELSE Pton4(t, k + 1, Append(done, cur), 0, FALSE)
              ELSE NoAddr

RECURSIVE Pton6(_, _, _, _, _, _)
\* inet_pton(AF_INET6, ...) without the dotted IPv4 tail: the 16 bit words
\* done, the position of "::" among them (-1: none), the word in progress
\* and its number of hex digits
Pton6(t, k, done, colonp, val, seen) ==
    IF k > Len(t)
    THEN LET all == IF seen > 0 THEN Append(done, val) ELSE done
         IN  IF Len(all) > 8 THEN NoAddr
             ELSE IF colonp >= 0
                  THEN IF Len(all) = 8 THEN NoAddr
                       ELSE SubSeq(all, 1, colonp)
                            \o [z \in 1..(8 - Len(all)) |-> 0]
                            \o SubSeq(all, colonp + 1, Len(all))
                  ELSE IF Len(all) = 8 THEN all ELSE NoAddr
    ELSE IF IsXDigit(t[k])
         THEN IF seen + 1 > 4 THEN NoAddr
              ELSE Pton6(t, k + 1, done, colonp, val * 16 + DigitVal(t[k]), seen + 1)
         ELSE IF t[k] = ":"
              THEN IF seen = 0
                   THEN IF colonp >= 0 THEN NoAddr
                        ELSE Pton6(t, k + 1, done, Len(done), 0, 0)
                   ELSE IF k = Len(t) \/ Len(done) >= 8 THEN NoAddr
                        ELSE Pton6(t, k + 1, Append(done, val), colonp, 0, 0)
              ELSE NoAddr

\* the bytes of a sequence of 16 bit words, high byte first
WordsToBytes(w) ==
    [b \in 1..(2 * Len(w)) |->
        IF b % 2 = 1 THEN w[(b + 1) \div 2] \div 256 ELSE w[b \div 2] % 256]

\* the 16 bit words of a sequence of bytes
BytesToWords(a) ==
    [w \in 1..(Len(a) \div 2) |-> a[2 * w - 1] * 256 + a[2 * w]]

\* inet_pton(family, text, ptr): the address bytes, NoAddr when it returns 0
inet_pton(family, t) ==
    IF family = AF_INET6
    THEN IF Len(t) >= 1 /\ t[1] = ":" /\ (Len(t) < 2 \/ t[2] # ":") THEN NoAddr
         ELSE LET w == Pton6(t, IF Len(t) >= 1 /\ t[1] = ":" THEN 2 ELSE 1, <<>>, -1, 0, 0)
              IN  IF w = NoAddr THEN NoAddr ELSE WordsToBytes(w)
    ELSE Pton4(t, 1, <<>>, 0, FALSE)

\* text of an in_addr: "%u.%u.%u.%u"
Ntop4(a) ==
    DecText(a[1]) \o <<".">> \o DecText(a[2]) \o <<".">>
        \o DecText(a[3]) \o <<".">> \o DecText(a[4])

\* length of the run of zero words of w that starts at word s
ZeroRun(w, s) ==
    IF w[s] # 0 THEN 0
    ELSE (CHOOSE e \in s..8 :
              /\ \A m \in s..e : w[m] = 0
              /\ (e = 8 \/ w[e + 1] # 0)) - s + 1

\* the first longest run of at least two zero words: <<base, len>>, base 0: none
BestRun(w) ==
    LET starts == {s \in 1..8 : (s = 1 \/ w[s - 1] # 0) /\ ZeroRun(w, s) >= 2}
    IN  IF starts = {} THEN <<0, 0>>
        ELSE LET b == CHOOSE s \in starts :
                          \A o \in starts :
                              \/ ZeroRun(w, s) > ZeroRun(w, o)
                              \/ (ZeroRun(w, s) = ZeroRun(w, o) /\ s <= o)
             IN  <<b, ZeroRun(w, b)>>

RECURSIVE Ntop6Words(_, _, _)
\* text of the words from i on, with the run best replaced by "::"
Ntop6Words(w, i, best) ==
    IF i > 8
    THEN IF best[1] # 0 /\ best[1] + best[2] = 9 THEN <<":">> ELSE <<>>
    ELSE IF best[1] # 0 /\ i >= best[1] /\ i < best[1] + best[2]
         THEN (IF i = best[1] THEN <<":">> ELSE <<>>) \o Ntop6Words(w, i + 1, best)
         ELSE (IF i # 1 THEN <<":">> ELSE <<>>) \o HexText(w[i])
                  \o Ntop6Words(w, i + 1, best)

\* text of an in6_addr (no address of the model is IPv4-mapped or -compatible)
Ntop6(a) == Ntop6Words(BytesToWords(a), 1, BestRun(BytesToWords(a)))

\* inet_ntop(family, ptr, dst, size): the text, or NoAddr (NULL, ENOSPC, dst
\* untouched) when the text and its NUL do not fit in size bytes
inet_ntop(family, a, size) ==
    LET t == IF family = AF_INET6 THEN Ntop6(a) ELSE Ntop4(a)
    IN  IF Len(t) + 1 > size THEN NoAddr ELSE t

(***************************************************************************)
(* State                                                                   *)
(***************************************************************************)
VARIABLES
    argv,        \* the positional arguments argv[optind .. argc - 1]
    mpc,         \* where main() is
    i,           \* main: index of the spec being processed / record resolved
    buf,         \* main: char buf[INET_ADDRSTR_LEN + 1] of the spec
    group,       \* main: offset of char *group into buf
    source,      \* main: char *source of the spec
    num,         \* main: number of groups the spec asks for
    j,           \* main: groups of the spec added so far
    groups,      \* struct gr groups[MAX_NUM_GROUPS]
    group_num,   \* number of groups[] entries in use
    need4,       \* number of IPv4 groups
    need6,       \* number of IPv6 groups
    ret,         \* exit code of main(), NotYet while it runs
    err,         \* the ERROR() message main() printed, if any
    accepted     \* log: the specs that passed the checks of main()

mainvars == <<argv, mpc, i, buf, group, source, num, j, groups, group_num,
              need4, need6, ret, err, accepted>>

NULLP == <<"NULL">>
NotYet == 0 - 1

\* a struct gr after memset(&groups[i], 0, sizeof(groups[0]))
ZeroGr ==
    [source |-> NULLP, group |-> NULLP, grp |-> NoAddr, family |-> 0,
     status |-> [k \in 1..STATUS_HISTORY |-> NUL], spin |-> 0, count |-> 0]

\* groups[] is indexed 0 .. MAX_NUM_GROUPS - 1
GroupIdx == 0..(MAX_NUM_GROUPS - 1)

\* "225.1.2.3"
DEFAULT_GROUP == <<"2", "2", "5", ".", "1", ".", "2", ".", "3">>

(***************************************************************************)
(* The run loop: state                                                     *)
(***************************************************************************)
VARIABLES
    old,          \* mode flag: plain output
    join,         \* mode flag: 0 sender, otherwise receiver
    foreground,   \* mode flag: 0 when run as a daemon
    running,      \* volatile sig_atomic_t running
    winchg,       \* volatile sig_atomic_t winchg
    width,        \* terminal width
    lpc,          \* where loop() is
    rc,           \* loop: int rc
    signo,        \* redraw: int signo
    timer,        \* the interval timer is armed with plotter_show
    sigwinch,     \* sigwinch_cb is installed
    stats,        \* lines printed by show_stats(), NotYet before it is called
    ticks,        \* log: SIGALRM deliveries
    shifts,       \* log: calls of update()
    iters,        \* log: loop iterations started
    nsig,         \* log: termination signals delivered
    sigiter,      \* log: iterations started when the first of them came
    sigmid,       \* log: whether an iteration was in progress when it came
    failed        \* log: the first nonzero code a send/receive call returned

loopvars == <<old, join, foreground, running, winchg, width, lpc, rc, signo,
              timer, sigwinch, stats, ticks, shifts, iters, nsig, sigiter,
              sigmid, failed>>

(***************************************************************************)
(* main(): the options, state                                              *)
(***************************************************************************)
VARIABLES
    optv,        \* the options getopt() returns, each with its optarg
    optn,        \* the number of them getopt() has returned
    bytes,       \* size_t bytes
    iface,       \* char iface[IFNAMSIZ + 1], as a C string
    handlers     \* exit_loop is installed for SIGINT, SIGHUP and SIGTERM

optvars == <<optv, optn, bytes, iface, handlers>>

(***************************************************************************)
(* The plotter: state                                                      *)
(***************************************************************************)
VARIABLES
    rows,        \* log: the row plotter_show() painted last for each group
    spos,        \* log: int spos of that call, NotYet before the first one
    stale,       \* log: a SIGWINCH was delivered after the last ttsize()
    ui           \* update(), called from loop(): size_t i

plotvars == <<rows, spos, stale, ui>>

vars == <<mainvars, loopvars, optvars, plotvars>>

\* bounds of the logs and of the inputs
MaxTicks == 1
MaxIters == 2
MaxSignals == 2
MaxArgs == 2
MaxNum == 5
MaxLoopGroups == 1

\* the terminal widths ttsize() may report: one below the 50 columns that
\* plotter_show() takes off, one that leaves a part of the history; width is
\* 80 before the first call
Widths == {40, 52}

\* the codes the send/receive calls may return: success and a failure
Codes == {0, 2}

(***************************************************************************)
(* main(): the registry                                                    *)
(***************************************************************************)
\* ASCII code of a character of an address text
Ord(c) ==
    IF IsDigit(c) THEN 48 + DigitVal(c)
    ELSE IF IsXDigit(c) THEN 97 + DigitVal(c) - 10
    ELSE IF c = "." THEN 46
    ELSE IF c = ":" THEN 58
    ELSE IF c = "," THEN 44
    ELSE 43

\* the family main() takes a group text to be of
FamilyOf(t) == IF strchr(t, ":") # 0 THEN AF_INET6 ELSE AF_INET

RECURSIVE IncBE(_, _)
\* bytes b, read as a big-endian unsigned integer that ends at byte k, plus one
IncBE(b, k) ==
    IF k = 0 THEN b
    ELSE IF b[k] = 255 THEN IncBE([b EXCEPT ![k] = 0], k - 1)
    ELSE [b EXCEPT ![k] = b[k] + 1]

\* "Next group ...": step = htonl(ntohl(step) + 1) on the last four bytes
NextGroup(family, a) ==
    IF family = AF_INET6
    THEN SubSeq(a, 1, 12) \o IncBE(SubSeq(a, 13, 16), 4)
    ELSE IncBE(a, 4)

\* the size main() passes to inet_ntop()
NtopLen(family) ==
    IF family = AF_INET6 THEN SizeofSockaddrIn6 ELSE SizeofSockaddrIn

\* mutant: the size of the array in bytes taken for its number of elements
NELEMS_groups_Bytes == 2 * MAX_NUM_GROUPS

\* NELEMS(groups), the number of elements of struct gr groups[MAX_NUM_GROUPS]
NELEMS_groups == MAX_NUM_GROUPS

\* mutant: the check of the count without the check against the maximum
SpecRejected_NoMax(n) == n < 1

\* the check that guards the expansion of a spec asking for n groups
SpecRejected(n) == n < 1 \/ n + group_num >= NELEMS_groups

\* usage(code) returns code, which main() returns
usage(code) == code

\* if (optind == argc) groups[group_num++].group = strdup(DEFAULT_GROUP)
main_default ==
    /\ mpc = "start"
    /\ IF Len(argv) = 0
       THEN /\ groups' = [groups EXCEPT ![group_num].group = DEFAULT_GROUP]
            /\ group_num' = group_num + 1
       ELSE UNCHANGED <<groups, group_num>>
    /\ mpc' = "args"
    /\ i' = 1
    /\ UNCHANGED <<argv, buf, group, source, num, j, need4, need6, ret, err, accepted>>
    /\ UNCHANGED loopvars
    /\ UNCHANGED optvars
    /\ UNCHANGED plotvars

\* one positional argument: split off +NUM and SOURCE, check the count
main_spec ==
    /\ mpc = "args"
    /\ i <= Len(argv)
    /\ LET b0 == strlcpy(argv[i], INET_ADDRSTR_LEN + 1)
           plus == strchr(CStr(b0, 0), "+")
           b1 == IF plus # 0 THEN [b0 EXCEPT ![plus] = NUL] ELSE b0
           n == IF plus # 0 THEN atoi(CStr(b1, plus)) ELSE 1
           comma == strchr(CStr(b1, 0), ",")
           b2 == IF comma # 0 THEN [b1 EXCEPT ![comma] = NUL] ELSE b1
       IN  /\ buf' = b2
           /\ num' = n
           /\ source' = IF comma # 0 THEN CStr(b2, 0) ELSE NULLP
           /\ group' = comma
           /\ IF SpecRejected(n)
              THEN /\ err' = "Invalid number of groups given, or max reached."
                   /\ ret' = usage(1)
                   /\ mpc' = "exit"
                   /\ UNCHANGED <<j, accepted>>
              ELSE /\ mpc' = "expand"
                   /\ j' = 0
                   /\ err' = err
                   /\ accepted' = Append(accepted,
                          [text |-> CStr(b2, comma), base |-> group_num,
                           num |-> n, done |-> FALSE])
                   /\ ret' = ret
    /\ UNCHANGED <<argv, i, groups, group_num, need4, need6>>
    /\ UNCHANGED loopvars
    /\ UNCHANGED optvars
    /\ UNCHANGED plotvars

\* one round of the inner loop: parse the group, add it, step to the next one
main_expand ==
    /\ mpc = "expand"
    /\ j < num /\ group_num < NELEMS_groups
    /\ LET g == CStr(buf, group)
           family == FamilyOf(g)
           a == inet_pton(family, g)
           t == inet_ntop(family, NextGroup(family, a), NtopLen(family))
       IN  IF a = NoAddr
           THEN /\ err' = "is not a valid multicast group"
                /\ ret' = usage(1)
                /\ mpc' = "exit"
                /\ UNCHANGED <<buf, group, j, groups, group_num>>
           ELSE /\ groups' = [groups EXCEPT ![group_num].source = source,
                                            ![group_num].group = g]
                /\ group_num' = group_num + 1
                /\ buf' = IF t = NoAddr THEN buf ELSE StrWrite(buf, t)
                /\ group' = 0
                /\ j' = j + 1
                /\ UNCHANGED <<ret, err, mpc>>
    /\ UNCHANGED <<argv, i, source, num, need4, need6, accepted>>
    /\ UNCHANGED loopvars
    /\ UNCHANGED optvars
    /\ UNCHANGED plotvars

\* the inner loop ends: on to the next argument
main_next ==
    /\ mpc = "expand"
    /\ ~(j < num /\ group_num < NELEMS_groups)
    /\ mpc' = "args"
    /\ i' = i + 1
    /\ accepted' = [accepted EXCEPT ![Len(accepted)].done = TRUE]
    /\ UNCHANGED <<argv, buf, group, source, num, j, groups, group_num,
                   need4, need6, ret, err>>
    /\ UNCHANGED loopvars
    /\ UNCHANGED optvars
    /\ UNCHANGED plotvars

\* the arguments are done: on to the second loop over the registry
main_resolve_start ==
    /\ mpc = "args"
    /\ i > Len(argv)
    /\ mpc' = "resolve"
    /\ i' = 0
    /\ UNCHANGED <<argv, buf, group, source, num, j, groups, group_num,
                   need4, need6, ret, err, accepted>>
    /\ UNCHANGED loopvars
    /\ UNCHANGED optvars
    /\ UNCHANGED plotvars

\* groups[i] after its round of the second loop of main(): the socket address
\* of the family its text is of, a blank history, the spinner start
Resolved(gr) ==
    [gr EXCEPT
        !.grp = inet_pton(FamilyOf(gr.group), gr.group),
        !.family = FamilyOf(gr.group),
        !.status = [k \in 1..STATUS_HISTORY |->
                       IF k <= STATUS_HISTORY - 1 THEN " " ELSE @[k]],
        !.spin = Ord(gr.group[Len(gr.group)])]

\* need6++ in the branch of a text with a colon
Need6(gr) == IF strchr(gr.group, ":") # 0 THEN 1 ELSE 0

\* mutant: need4++ outside the else branch
Need4_Always(gr) == 1

\* need4++ in the other branch
Need4(gr) == IF strchr(gr.group, ":") # 0 THEN 0 ELSE 1

\* the socket address, the family counters, the history and the spinner of
\* groups[i]
main_resolve ==
    /\ mpc = "resolve"
    /\ i < group_num
    /\ groups' = [groups EXCEPT ![i] = Resolved(@)]
    /\ need6' = need6 + Need6(groups[i])
    /\ need4' = need4 + Need4(groups[i])
    /\ i' = i + 1
    /\ UNCHANGED <<argv, mpc, buf, group, source, num, j, group_num, ret, err,
                   accepted>>
    /\ UNCHANGED loopvars
    /\ UNCHANGED optvars
    /\ UNCHANGED plotvars

\* sigaction() for SIGINT, SIGHUP and SIGTERM, then return loop()
main_loop ==
    /\ mpc = "resolve"
    /\ i >= group_num
    /\ mpc' = "loop"
    /\ lpc' = "init"
    /\ UNCHANGED <<argv, i, buf, group, source, num, j, groups, group_num,
                   need4, need6, ret, err, accepted>>
    /\ UNCHANGED <<old, join, foreground, running, winchg, width, rc, signo,
                   timer, sigwinch, stats, ticks, shifts, iters, nsig, sigiter,
                   sigmid, failed>>
    /\ handlers' = TRUE
    /\ UNCHANGED <<optv, optn, bytes, iface>>
    /\ UNCHANGED plotvars

(***************************************************************************)
(* main(): the options                                                     *)
(***************************************************************************)
\* the largest payload
BUFSZ == 1606

\* the longest interface name, with its terminator
IFNAMSIZ == 16

\* sizeof(iface) of char iface[IFNAMSIZ + 1]
SizeofIface == IFNAMSIZ + 1

\* (size_t)n of an int n: a negative n wraps to 2^64 + n, which is above every
\* size it is compared with; it is kept at the top of the integers at hand,
\* in the same order
SizeT(n) == IF n < 0 THEN (2147483647 + n) + 1 ELSE n

\* mutant: no limit on the payload
BytesTooLong_Never(n) == FALSE

\* bytes > BUFSZ
BytesTooLong(n) == n > BUFSZ

\* ilen >= sizeof(iface)
IfaceTooLong(name) == Len(name) >= SizeofIface

\* the levels "none", "notice" and "debug"
LogLevels ==
    {<<"n", "o", "n", "e">>, <<"n", "o", "t", "i", "c", "e">>,
     <<"d", "e", "b", "u", "g">>}

\* log_level(): 0 for a level it knows, nonzero otherwise
log_level(arg) == IF arg \in LogLevels THEN 0 ELSE 1

\* one round of while ((c = getopt(...)) != EOF) switch (c): the option is
\* taken, its case runs; at EOF main() goes on to the positional arguments
main_getopt ==
    /\ mpc = "opts"
    /\ IF optn = Len(optv)
       THEN /\ mpc' = "start"
            /\ UNCHANGED <<optn, bytes, iface, old, join, foreground, ret, err>>
       ELSE LET c == optv[optn + 1].c
                optarg == optv[optn + 1].optarg
                b == IF c = "b" THEN SizeT(atoi(optarg)) ELSE bytes
                msg == CASE c = "b" /\ BytesTooLong(b) -> "Too long payload"
                         [] c = "i" /\ IfaceTooLong(optarg)
                                -> "Too long interface name"
                         [] c = "l" /\ log_level(optarg) # 0
                                -> "Invalid log level"
                         [] OTHER -> ""
                code == CASE msg # "" -> 1
                          [] c = "h" -> usage(0)
                          [] c = "v" -> 0
                          [] c \notin {"b", "d", "i", "j", "l", "o", "s"}
                                -> usage(1)
                          [] OTHER -> NotYet
            IN  /\ optn' = optn + 1
                /\ bytes' = b
                /\ iface' = IF c = "i" /\ ~IfaceTooLong(optarg)
                            THEN optarg ELSE iface
                /\ foreground' = IF c = "d" THEN 0 ELSE foreground
                /\ join' = CASE c = "j" -> join + 1
                             [] c = "s" -> 0
                             [] OTHER -> join
                /\ old' = IF c = "o" THEN old + 1 ELSE old
                /\ err' = IF msg # "" THEN msg ELSE err
                /\ ret' = code
                /\ mpc' = IF code # NotYet THEN "exit" ELSE mpc
    /\ UNCHANGED <<argv, i, buf, group, source, num, j, groups, group_num,
                   need4, need6, accepted>>
    /\ UNCHANGED <<running, winchg, width, lpc, rc, signo, timer, sigwinch,
                   stats, ticks, shifts, iters, nsig, sigiter, sigmid, failed>>
    /\ UNCHANGED <<optv, handlers>>
    /\ UNCHANGED plotvars

(***************************************************************************)
(* Status history                                                          *)
(***************************************************************************)
\* slot p (0-based) of a history
Slot(st, p) == st[p + 1]

\* mark: the send/receive unit writes activity into the most recent slot
mark(st, c) == [st EXCEPT ![STATUS_POS + 1] = c]

\* memmove(g->status, &g->status[1], STATUS_HISTORY - 1)
memmove1(st) ==
    [k \in 1..STATUS_HISTORY |-> IF k <= STATUS_HISTORY - 1 THEN st[k + 1] ELSE st[k]]

\* mutant: update() without status[STATUS_POS] = ' '
update1_NoBlank(st) == memmove1(st)

\* update() on one history
update1(st) == [memmove1(st) EXCEPT ![STATUS_POS + 1] = " "]

\* update(): prepare next iteration, for every group in use
update(gs) ==
    [x \in GroupIdx |->
        IF x < group_num THEN [gs[x] EXCEPT !.status = update1(@)] ELSE gs[x]]

\* mutant: the cursor moves on every call
spin_Always(g) == [g EXCEPT !.spin = @ + 1]

\* spin(): the cursor moves on activity only
spin(g) == IF Slot(g.status, STATUS_POS) = "." THEN [g EXCEPT !.spin = @ + 1] ELSE g

\* plotter_show(): plain output only shifts; fancy output spins every group's
\* cursor, paints its row and then shifts
plotter_show(gs) ==
    IF old # 0 THEN update(gs)
    ELSE update([x \in GroupIdx |-> IF x < group_num THEN spin(gs[x]) ELSE gs[x]])

\* const char *spinner = "|/-\\"
spinner == <<"|", "/", "-", "\\">>

\* spin(): act = spinner[g->spin % num], the glyph it returns
act(g) == spinner[(g.spin % Len(spinner)) + 1]

\* swidth = width - 50; if (swidth > STATUS_HISTORY) swidth = STATUS_HISTORY
swidth == IF width - 50 > STATUS_HISTORY THEN STATUS_HISTORY ELSE width - 50

\* spos = STATUS_HISTORY - swidth
Spos == STATUS_HISTORY - swidth

\* what a read beyond status[] may find
Garbage == {<<>>, <<"?">>}

\* "%s" of &g->status[p]: the history from slot p up to the terminator; with
\* p outside status[] whatever lies there
RowText(st, p, junk) == IF p \in 0..(STATUS_HISTORY - 1) THEN CStr(st, p) ELSE junk

\* no row painted
NoRow == [act |-> NUL, text |-> <<>>]

\* mutant: the rows are painted after update()
plotter_rows_Shifted(gs, junk) ==
    [x \in GroupIdx |->
        IF x < group_num
        THEN [act |-> act(gs[x]),
              text |-> RowText(update1(gs[x].status), Spos, junk)]
        ELSE NoRow]

\* plotter_show(), fancy output: the glyph and the history that the loop
\* over the groups prints, before update()
plotter_rows(gs, junk) ==
    [x \in GroupIdx |->
        IF x < group_num
        THEN [act |-> act(gs[x]), text |-> RowText(gs[x].status, Spos, junk)]
        ELSE NoRow]

\* mutant: show_stats() without its if (join)
show_stats_Always == group_num + 1

\* show_stats(): one line per group and the total, in receiver mode only
show_stats == IF join # 0 THEN group_num + 1 ELSE 0

(***************************************************************************)
(* loop() and the signal handlers                                          *)
(***************************************************************************)
\* the positions of loop() inside an iteration of its while loop
InIteration == {"redraw", "ttsize", "clear", "plot", "update", "blank", "io"}

\* the positions at which loop() has been entered and has not returned
InLoop == {"init", "test", "leave"} \cup InIteration

\* sender_init() / receiver_init(): the result code; the timer is armed with
\* plotter_show when they succeed
loop_init ==
    /\ lpc = "init"
    /\ sigwinch' = TRUE
    /\ \E code \in Codes :
        /\ rc' = code
        /\ failed' = code
        /\ timer' = (code = 0)
    /\ lpc' = "test"
    /\ UNCHANGED mainvars
    /\ UNCHANGED <<old, join, foreground, running, winchg, width, signo, stats,
                   ticks, shifts, iters, nsig, sigiter, sigmid>>
    /\ UNCHANGED optvars
    /\ UNCHANGED plotvars

\* mutant: while (running), the result code is not tested
loop_test_IgnoreRc ==
    /\ lpc = "test"
    /\ IF running # 0
       THEN /\ iters < MaxIters
            /\ signo' = winchg
            /\ iters' = iters + 1
            /\ lpc' = "redraw"
       ELSE /\ lpc' = "leave"
            /\ UNCHANGED <<signo, iters>>
    /\ UNCHANGED mainvars
    /\ UNCHANGED <<old, join, foreground, running, winchg, width, rc, timer,
                   sigwinch, stats, ticks, shifts, nsig, sigiter, sigmid, failed>>
    /\ UNCHANGED optvars
    /\ UNCHANGED plotvars

\* while (!rc && running): the next iteration starts with redraw(winchg)
loop_test ==
    /\ lpc = "test"
    /\ IF rc = 0 /\ running # 0
       THEN /\ iters < MaxIters
            /\ signo' = winchg
            /\ iters' = iters + 1
            /\ lpc' = "redraw"
       ELSE /\ lpc' = "leave"
            /\ UNCHANGED <<signo, iters>>
    /\ UNCHANGED mainvars
    /\ UNCHANGED <<old, join, foreground, running, winchg, width, rc, timer,
                   sigwinch, stats, ticks, shifts, nsig, sigiter, sigmid, failed>>
    /\ UNCHANGED optvars
    /\ UNCHANGED plotvars

\* redraw(): nothing in plain or background mode; without a pending resize the
\* frame is painted and the unit of work follows
redraw ==
    /\ lpc = "redraw"
    /\ lpc' = IF old # 0 \/ foreground = 0 THEN "io"
              ELSE IF signo # 0 THEN "ttsize" ELSE "io"
    /\ UNCHANGED mainvars
    /\ UNCHANGED <<old, join, foreground, running, winchg, width, rc, signo,
                   timer, sigwinch, stats, ticks, shifts, iters, nsig, sigiter,
                   sigmid, failed>>
    /\ UNCHANGED optvars
    /\ UNCHANGED plotvars

\* redraw(): ttsize(&width, &height)
redraw_ttsize ==
    /\ lpc = "ttsize"
    /\ width' \in Widths
    /\ lpc' = "clear"
    /\ UNCHANGED mainvars
    /\ UNCHANGED <<old, join, foreground, running, winchg, rc, signo, timer,
                   sigwinch, stats, ticks, shifts, iters, nsig, sigiter, sigmid,
                   failed>>
    /\ UNCHANGED optvars
    /\ stale' = FALSE
    /\ UNCHANGED <<rows, spos, ui>>

\* mutant: redraw() without winchg = 0
redraw_clear_Keep ==
    /\ lpc = "clear"
    /\ winchg' = winchg
    /\ lpc' = "plot"
    /\ UNCHANGED mainvars
    /\ UNCHANGED <<old, join, foreground, running, width, rc, signo, timer,
                   sigwinch, stats, ticks, shifts, iters, nsig, sigiter, sigmid,
                   failed>>
    /\ UNCHANGED optvars
    /\ UNCHANGED plotvars

\* redraw(): winchg = 0
redraw_clear ==
    /\ lpc = "clear"
    /\ winchg' = 0
    /\ lpc' = "plot"
    /\ UNCHANGED mainvars
    /\ UNCHANGED <<old, join, foreground, running, width, rc, signo, timer,
                   sigwinch, stats, ticks, shifts, iters, nsig, sigiter, sigmid,
                   failed>>
    /\ UNCHANGED optvars
    /\ UNCHANGED plotvars

\* redraw(): the frame is painted, then plotter_show(signo) and log_show(signo)
redraw_plot ==
    /\ lpc = "plot"
    /\ groups' = plotter_show(groups)
    /\ shifts' = shifts + 1
    /\ lpc' = "io"
    /\ UNCHANGED <<argv, mpc, i, buf, group, source, num, j, group_num, need4,
                   need6, ret, err, accepted>>
    /\ UNCHANGED <<old, join, foreground, running, winchg, width, rc, signo,
                   timer, sigwinch, stats, ticks, iters, nsig, sigiter, sigmid,
                   failed>>
    /\ UNCHANGED optvars
    /\ IF old # 0 THEN UNCHANGED <<rows, spos>>
       ELSE /\ \E junk \in Garbage : rows' = plotter_rows(groups, junk)
            /\ spos' = Spos
    /\ UNCHANGED <<stale, ui>>

\* plotter_show(signo), called by redraw(), step by step: first the loop over
\* the groups, which spins the cursors and prints the rows
plotter_show_rows ==
    /\ lpc = "plot"
    /\ IF old # 0 THEN UNCHANGED <<groups, rows, spos>>
       ELSE /\ groups' = [x \in GroupIdx |->
                            IF x < group_num THEN spin(groups[x]) ELSE groups[x]]
            /\ \E junk \in Garbage : rows' = plotter_rows(groups, junk)
            /\ spos' = Spos
    /\ ui' = 0
    /\ lpc' = "update"
    /\ UNCHANGED <<argv, mpc, i, buf, group, source, num, j, group_num, need4,
                   need6, ret, err, accepted>>
    /\ UNCHANGED <<old, join, foreground, running, winchg, width, rc, signo,
                   timer, sigwinch, stats, ticks, shifts, iters, nsig, sigiter,
                   sigmid, failed>>
    /\ UNCHANGED optvars
    /\ UNCHANGED stale

\* update(), called by that plotter_show(): the memmove() of groups[i]
update_memmove ==
    /\ lpc = "update"
    /\ ui < group_num
    /\ groups' = [groups EXCEPT ![ui].status = memmove1(@)]
    /\ lpc' = "blank"
    /\ UNCHANGED <<argv, mpc, i, buf, group, source, num, j, group_num, need4,
                   need6, ret, err, accepted>>
    /\ UNCHANGED <<old, join, foreground, running, winchg, width, rc, signo,
                   timer, sigwinch, stats, ticks, shifts, iters, nsig, sigiter,
                   sigmid, failed>>
    /\ UNCHANGED optvars
    /\ UNCHANGED plotvars

\* update(): g->status[STATUS_POS] = ' ' of groups[i], and i++
update_blank ==
    /\ lpc = "blank"
    /\ groups' = [groups EXCEPT ![ui].status = [@ EXCEPT ![STATUS_POS + 1] = " "]]
    /\ ui' = ui + 1
    /\ lpc' = "update"
    /\ UNCHANGED <<argv, mpc, i, buf, group, source, num, j, group_num, need4,
                   need6, ret, err, accepted>>
    /\ UNCHANGED <<old, join, foreground, running, winchg, width, rc, signo,
                   timer, sigwinch, stats, ticks, shifts, iters, nsig, sigiter,
                   sigmid, failed>>
    /\ UNCHANGED optvars
    /\ UNCHANGED <<rows, spos, stale>>

\* update() is through with the groups: plotter_show() and redraw() return
update_return ==
    /\ lpc = "update"
    /\ ui >= group_num
    /\ shifts' = shifts + 1
    /\ lpc' = "io"
    /\ UNCHANGED mainvars
    /\ UNCHANGED <<old, join, foreground, running, winchg, width, rc, signo,
                   timer, sigwinch, stats, ticks, iters, nsig, sigiter, sigmid,
                   failed>>
    /\ UNCHANGED optvars
    /\ UNCHANGED plotvars

\* sender() / receiver(count) marks the most recent slot of a group it sent to
\* or received from
io_mark ==
    /\ lpc = "io"
    /\ \E x \in GroupIdx :
        /\ x < group_num
        /\ Slot(groups[x].status, STATUS_POS) # "."
        /\ groups' = [groups EXCEPT ![x].status = mark(@, ".")]
    /\ UNCHANGED <<argv, mpc, i, buf, group, source, num, j, group_num, need4,
                   need6, ret, err, accepted>>
    /\ UNCHANGED loopvars
    /\ UNCHANGED optvars
    /\ UNCHANGED plotvars

\* rc = sender() / rc = receiver(count)
io_return ==
    /\ lpc = "io"
    /\ \E code \in Codes :
        /\ rc' = code
        /\ failed' = IF failed # 0 THEN failed ELSE code
    /\ lpc' = "test"
    /\ UNCHANGED mainvars
    /\ UNCHANGED <<old, join, foreground, running, winchg, width, signo, timer,
                   sigwinch, stats, ticks, shifts, iters, nsig, sigiter, sigmid>>
    /\ UNCHANGED optvars
    /\ UNCHANGED plotvars

\* after the while loop: statistics when rc is 0, the terminal is restored,
\* rc is returned and is the exit code of main()
loop_leave ==
    /\ lpc = "leave"
    /\ stats' = IF rc = 0 THEN show_stats ELSE stats
    /\ ret' = rc
    /\ lpc' = "done"
    /\ UNCHANGED <<argv, mpc, i, buf, group, source, num, j, groups, group_num,
                   need4, need6, err, accepted>>
    /\ UNCHANGED <<old, join, foreground, running, winchg, width, rc, signo,
                   timer, sigwinch, ticks, shifts, iters, nsig, sigiter, sigmid,
                   failed>>
    /\ UNCHANGED optvars
    /\ UNCHANGED plotvars

\* mutant: the handler toggles the flag
exit_loop_Toggle ==
    /\ lpc \in InLoop
    /\ handlers
    /\ nsig < MaxSignals
    /\ running' = 1 - running
    /\ nsig' = nsig + 1
    /\ sigiter' = IF nsig = 0 THEN iters ELSE sigiter
    /\ sigmid' = IF nsig = 0 THEN lpc \in InIteration ELSE sigmid
    /\ UNCHANGED mainvars
    /\ UNCHANGED <<old, join, foreground, winchg, width, lpc, rc, signo, timer,
                   sigwinch, stats, ticks, shifts, iters, failed>>
    /\ UNCHANGED optvars
    /\ UNCHANGED plotvars

\* mutant: the handler ends the iteration in progress
exit_loop_Abort ==
    /\ lpc \in InLoop
    /\ handlers
    /\ nsig < MaxSignals
    /\ running' = 0
    /\ lpc' = IF lpc \in InIteration THEN "test" ELSE lpc
    /\ nsig' = nsig + 1
    /\ sigiter' = IF nsig = 0 THEN iters ELSE sigiter
    /\ sigmid' = IF nsig = 0 THEN lpc \in InIteration ELSE sigmid
    /\ UNCHANGED mainvars
    /\ UNCHANGED <<old, join, foreground, winchg, width, rc, signo, timer,
                   sigwinch, stats, ticks, shifts, iters, failed>>
    /\ UNCHANGED optvars
    /\ UNCHANGED plotvars

\* SIGINT, SIGHUP or SIGTERM: running = 0
exit_loop ==
    /\ lpc \in InLoop
    /\ handlers
    /\ nsig < MaxSignals
    /\ running' = 0
    /\ nsig' = nsig + 1
    /\ sigiter' = IF nsig = 0 THEN iters ELSE sigiter
    /\ sigmid' = IF nsig = 0 THEN lpc \in InIteration ELSE sigmid
    /\ UNCHANGED mainvars
    /\ UNCHANGED <<old, join, foreground, winchg, width, lpc, rc, signo, timer,
                   sigwinch, stats, ticks, shifts, iters, failed>>
    /\ UNCHANGED optvars
    /\ UNCHANGED plotvars

\* SIGWINCH: winchg = 1
sigwinch_cb ==
    /\ lpc \in InLoop
    /\ sigwinch
    /\ winchg' = 1
    /\ UNCHANGED mainvars
    /\ UNCHANGED <<old, join, foreground, running, width, lpc, rc, signo, timer,
                   sigwinch, stats, ticks, shifts, iters, nsig, sigiter, sigmid,
                   failed>>
    /\ UNCHANGED optvars
    /\ stale' = TRUE
    /\ UNCHANGED <<rows, spos, ui>>

\* SIGALRM, one tick of the interval timer: plotter_show(SIGALRM)
sigalrm ==
    /\ lpc \in InLoop
    /\ timer
    /\ ticks < MaxTicks
    /\ groups' = plotter_show(groups)
    /\ ticks' = ticks + 1
    /\ shifts' = shifts + 1
    /\ UNCHANGED <<argv, mpc, i, buf, group, source, num, j, group_num, need4,
                   need6, ret, err, accepted>>
    /\ UNCHANGED <<old, join, foreground, running, winchg, width, lpc, rc,
                   signo, timer, sigwinch, stats, iters, nsig, sigiter, sigmid,
                   failed>>
    /\ UNCHANGED optvars
    /\ IF old # 0 THEN UNCHANGED <<rows, spos>>
       ELSE /\ \E junk \in Garbage : rows' = plotter_rows(groups, junk)
            /\ spos' = Spos
    /\ UNCHANGED <<stale, ui>>

(***************************************************************************)
(* Inputs                                                                  *)
(***************************************************************************)
\* "239.1.1.1"
G4 == <<"2", "3", "9", ".", "1", ".", "1", ".", "1">>
\* "239.255.255.255": the step carries through three bytes
G4Carry == <<"2", "3", "9", ".", "2", "5", "5", ".", "2", "5", "5", ".", "2", "5", "5">>
\* "255.255.255.255": the step wraps the 32 bits
G4Top == <<"2", "5", "5", ".", "2", "5", "5", ".", "2", "5", "5", ".", "2", "5", "5">>
\* "ff08::1"
G6 == <<"f", "f", "0", "8", ":", ":", "1">>
\* "ff08::ffff:ffff": the step wraps the low 32 bits
G6Wrap == <<"f", "f", "0", "8", ":", ":", "f", "f", "f", "f", ":", "f", "f", "f", "f">>
\* "ff3e:40:2001:db8:cafe:1:1234:5678": 33 characters
G6Long == <<"f", "f", "3", "e", ":", "4", "0", ":", "2", "0", "0", "1", ":",
            "d", "b", "8", ":", "c", "a", "f", "e", ":", "1", ":",
            "1", "2", "3", "4", ":", "5", "6", "7", "8">>
\* "239.1.1": not an address
GBad == <<"2", "3", "9", ".", "1", ".", "1">>
\* "10.0.0.9"
S4 == <<"1", "0", ".", "0", ".", "0", ".", "9">>
\* "2001:db8::9"
S6 == <<"2", "0", "0", "1", ":", "d", "b", "8", ":", ":", "9">>

\* GROUP+N for every N up to MaxNum, and GROUP, GROUP+N, GROUP+-1 and
\* SOURCE,GROUP+N for some other groups
Tokens ==
    {G4 \o <<"+">> \o DecText(n) : n \in 0..MaxNum}
    \cup {G4, G6, G6Long, GBad, S4, G4 \o <<"+", "-", "1">>}
    \cup {g \o <<"+", "2">> : g \in {G4Carry, G4Top, G6, G6Wrap, G6Long, GBad}}
    \cup {G6 \o <<"+", "3">>}
    \cup {S4 \o <<",">> \o G4 \o <<"+", "2">>, S6 \o <<",">> \o G6,
          S4 \o <<",">> \o G6Long \o <<"+", "2">>,
          S6 \o <<",">> \o G6Long \o <<"+", "2">>}

ArgLists == UNION {[1..n -> Tokens] : n \in 0..MaxArgs}

(***************************************************************************)
(* Specifications                                                          *)
(***************************************************************************)
\* the globals as initialised, before main() has run
LoopIdle ==
    /\ old = 0 /\ join = 1 /\ foreground = 1
    /\ running = 1 /\ winchg = 0 /\ width = 80
    /\ lpc = "idle" /\ rc = 0 /\ signo = 0
    /\ timer = FALSE /\ sigwinch = FALSE /\ stats = NotYet
    /\ ticks = 0 /\ shifts = 0 /\ iters = 0
    /\ nsig = 0 /\ sigiter = 0 /\ sigmid = FALSE /\ failed = 0

\* main() starts: groups[] zeroed, the positional arguments given
Init ==
    /\ argv \in ArgLists
    /\ mpc = "start"
    /\ i = 0 /\ buf = <<>> /\ group = 0 /\ source = NULLP /\ num = 1 /\ j = 0
    /\ groups = [x \in GroupIdx |-> ZeroGr]
    /\ group_num = 0
    /\ need4 = 0 /\ need6 = 0
    /\ ret = NotYet
    /\ err = ""
    /\ accepted = <<>>
    /\ LoopIdle
    /\ optv = <<>> /\ optn = 0 /\ bytes = 100 /\ iface = <<>>
    /\ handlers = FALSE
    /\ rows = [x \in GroupIdx |-> NoRow] /\ spos = NotYet
    /\ stale = FALSE /\ ui = 0

Next ==
    \/ main_default
    \/ main_spec
    \/ main_expand
    \/ main_next
    \/ main_resolve_start
    \/ main_resolve
    \/ main_loop

Spec == Init /\ [][Next]_vars

\* the bound of the options of a command line
MaxOpts == 2

\* "eth0"
Eth0 == <<"e", "t", "h", "0">>

\* an option with its argument
Opt(c, optarg) == [c |-> c, optarg |-> optarg]

\* payloads at, around and far above the limit, interface names that fit,
\* fit exactly and do not fit, log levels known and unknown, the options
\* without argument, and one that getopt() does not know
Options ==
    {Opt("b", DecText(n)) : n \in {100, BUFSZ, BUFSZ + 1}}
    \cup {Opt("b", <<"-", "1">>)}
    \cup {Opt("i", Eth0)}
    \cup {Opt("i", [k \in 1..n |-> "x"]) : n \in {IFNAMSIZ, IFNAMSIZ + 1}}
    \cup {Opt("l", <<"d", "e", "b", "u", "g">>), Opt("l", <<"l", "o", "u", "d">>)}
    \cup {Opt(c, NULLP) : c \in {"d", "j", "o", "s", "h", "v", "?"}}

OptLists == UNION {[1..n -> Options] : n \in 0..MaxOpts}

\* the positional arguments that go with them: none, a group, two specs that
\* fit, and one of each kind main() rejects
OptArgLists ==
    {<<>>, <<G4>>, <<G4 \o <<"+", "2">>, G6>>, <<GBad>>, <<G4 \o <<"+", "0">>>>,
     <<G4 \o <<"+", "2">>, G6 \o <<"+", "3">>>>}

\* main() starts on a command line with options
InitOpts ==
    /\ argv \in OptArgLists
    /\ mpc = "opts"
    /\ i = 0 /\ buf = <<>> /\ group = 0 /\ source = NULLP /\ num = 1 /\ j = 0
    /\ groups = [x \in GroupIdx |-> ZeroGr]
    /\ group_num = 0
    /\ need4 = 0 /\ need6 = 0
    /\ ret = NotYet
    /\ err = ""
    /\ accepted = <<>>
    /\ LoopIdle
    /\ optv \in OptLists /\ optn = 0 /\ bytes = 100 /\ iface = <<>>
    /\ handlers = FALSE
    /\ rows = [x \in GroupIdx |-> NoRow] /\ spos = NotYet
    /\ stale = FALSE /\ ui = 0

NextOpts ==
    \/ main_getopt
    \/ Next

SpecOpts == InitOpts /\ [][NextOpts]_vars

\* the registry of n groups 239.1.1.1, 239.1.1.2, ... as main() leaves it
LoopGroups(n) ==
    [x \in GroupIdx |->
        IF x < n
        THEN Resolved([ZeroGr EXCEPT !.group = Ntop4(<<239, 1, 1, x + 1>>)])
        ELSE ZeroGr]

\* main() has set the modes and the registry and calls loop()
InitLoop ==
    /\ argv = <<>>
    /\ mpc = "loop"
    /\ i = 0 /\ buf = <<>> /\ group = 0 /\ source = NULLP /\ num = 1 /\ j = 0
    /\ \E n \in 1..MaxLoopGroups :
        /\ group_num = n
        /\ groups = LoopGroups(n)
        /\ need4 = n
    /\ need6 = 0
    /\ ret = NotYet
    /\ err = ""
    /\ accepted = <<>>
    /\ old \in {0, 1} /\ join \in {0, 1} /\ foreground \in {0, 1}
    /\ running = 1 /\ winchg = 0 /\ width = 80
    /\ lpc = "init" /\ rc = 0 /\ signo = 0
    /\ timer = FALSE /\ sigwinch = FALSE /\ stats = NotYet
    /\ ticks = 0 /\ shifts = 0 /\ iters = 0
    /\ nsig = 0 /\ sigiter = 0 /\ sigmid = FALSE /\ failed = 0
    /\ optv = <<>> /\ optn = 0 /\ bytes = 100 /\ iface = <<>>
    /\ handlers = TRUE
    /\ rows = [x \in GroupIdx |-> NoRow] /\ spos = NotYet
    /\ stale = FALSE /\ ui = 0

NextLoop ==
    \/ loop_init
    \/ loop_test
    \/ redraw
    \/ redraw_ttsize
    \/ redraw_clear
    \/ redraw_plot
    \/ io_mark
    \/ io_return
    \/ loop_leave
    \/ exit_loop
    \/ sigwinch_cb
    \/ sigalrm

SpecLoop == InitLoop /\ [][NextLoop]_vars

\* loop() in fancy output on a terminal, where redraw() calls plotter_show()
InitRace == InitLoop /\ old = 0 /\ foreground = 1

\* loop() and the signal handlers, with the plotter_show() of redraw() taken
\* step by step, so that a handler may run between its steps
NextRace ==
    \/ loop_init
    \/ loop_test
    \/ redraw
    \/ redraw_ttsize
    \/ redraw_clear
    \/ plotter_show_rows
    \/ update_memmove
    \/ update_blank
    \/ update_return
    \/ io_mark
    \/ io_return
    \/ loop_leave
    \/ exit_loop
    \/ sigwinch_cb
    \/ sigalrm

SpecRace == InitRace /\ [][NextRace]_vars

(***************************************************************************)
(* Properties of the registry                                              *)
(***************************************************************************)
\* the address a group text stands for, of the family the text is taken to be of
TextAddr(t) == inet_pton(FamilyOf(t), t)

\* four bytes, read as a big-endian unsigned 32 bit integer, plus k (k < 65536)
Plus32(b, k) ==
    LET lo == (b[3] * 256 + b[4]) + k
        hi == (b[1] * 256 + b[2]) + lo \div 65536
    IN  <<(hi % 65536) \div 256, hi % 256, (lo % 65536) \div 256, lo % 256>>

\* address a with k added to its low-order 32 bits, the other bits untouched
AddrPlus(a, k) ==
    IF Len(a) = 16 THEN SubSeq(a, 1, 12) \o Plus32(SubSeq(a, 13, 16), k)
    ELSE Plus32(a, k)

\* the number of groups[] entries in use when spec s of the log was expanded
EndOf(s) == IF s < Len(accepted) THEN accepted[s + 1].base ELSE group_num

RECURSIVE SumNum(_)
\* the sum of the counts of the first s accepted specs
SumNum(s) == IF s = 0 THEN 0 ELSE accepted[s].num + SumNum(s - 1)

\* C1: every accepted spec GROUP+N, once expanded, has appended exactly N
\* records (1 without +N) whose group addresses are GROUP, GROUP+1, ...,
\* GROUP+N-1 in that order, and group_num is the sum of the counts of the
\* accepted specs.
C1_SpecExpansion ==
    /\ \A s \in 1..Len(accepted) :
        accepted[s].done =>
            /\ EndOf(s) = accepted[s].base + accepted[s].num
            /\ \A k \in 0..(accepted[s].num - 1) :
                TextAddr(groups[accepted[s].base + k].group)
                    = AddrPlus(TextAddr(accepted[s].text), k)
    /\ (mpc \in {"resolve", "loop"} /\ Len(argv) > 0)
            => group_num = SumNum(Len(accepted))

\* C2: a spec whose count (>= 1) makes the total exceed MAX_NUM_GROUPS fails
\* with the capacity error through usage(1), and groups[] and group_num are
\* as they were before the spec was processed.
C2_CapacityRejectedUnchanged ==
    [][(mpc = "args" /\ i <= Len(argv) /\ num' >= 1
            /\ group_num + num' > MAX_NUM_GROUPS)
        => /\ mpc' = "exit"
           /\ ret' = 1
           /\ err' = "Invalid number of groups given, or max reached."
           /\ groups' = groups
           /\ group_num' = group_num]_vars

\* a spec was rejected for its count while the registry held groups
C2_Witness ==
    /\ mpc = "exit"
    /\ err = "Invalid number of groups given, or max reached."
    /\ num >= 1
    /\ group_num >= 2
    /\ group_num + num > MAX_NUM_GROUPS

\* C3: the k-th record of an expansion has the resolved address seed + k: for
\* IPv4 the seed as a big-endian 32 bit integer plus k, for IPv6 the low-order
\* 32 bits (bytes 12..15) plus k, wrapping, with the upper 96 bits of the seed.
C3_AddressStepping ==
    mpc = "loop" =>
        \A s \in 1..Len(accepted) : \A k \in 0..(accepted[s].num - 1) :
            LET seed == TextAddr(accepted[s].text)
                a == groups[accepted[s].base + k].grp
            IN  IF strchr(accepted[s].text, ":") # 0
                THEN /\ Len(a) = 16
                     /\ SubSeq(a, 1, 12) = SubSeq(seed, 1, 12)
                     /\ SubSeq(a, 13, 16) = Plus32(SubSeq(seed, 13, 16), k)
                ELSE a = Plus32(seed, k)

\* the records in use whose resolved address is of n bytes
OfLen(n) == {x \in GroupIdx : x < group_num /\ Len(groups[x].grp) = n}

\* C6: after resolution need4 is the number of records with an IPv4 group
\* and need6 the number with an IPv6 group, so need4 + need6 = group_num;
\* the specs 239.1.1.1 and ff08::1 give need4 = 1 and need6 = 1.
C6_FamilyClassification ==
    mpc = "loop" =>
        /\ need4 = Cardinality(OfLen(4))
        /\ need6 = Cardinality(OfLen(16))
        /\ need4 + need6 = group_num
        /\ (argv = <<G4, G6>> => need4 = 1 /\ need6 = 1)

\* the mixed specs 239.1.1.1 and ff08::1 have been resolved
C6_Witness == mpc = "loop" /\ argv = <<G4, G6>> /\ need4 = 1 /\ need6 = 1

(***************************************************************************)
(* Properties of the history and of the run loop                           *)
(***************************************************************************)
\* the records in use
InUse == {x \in GroupIdx : x < group_num}

\* every slot before the terminator is blank
AllBlank(st) == \A p \in 0..(STATUS_HISTORY - 2) : Slot(st, p) = " "

\* this step is a call of update()
Advance == shifts' = shifts + 1

\* C4 as stated: after a mark into status[STATUS_POS] and one advance, the
\* marked symbol is no longer present in the history.
C4_MarkGoneAfterAdvance ==
    [][\A x \in InUse :
        (Advance /\ Slot(groups[x].status, STATUS_POS) = ".")
            => \A p \in 0..(STATUS_HISTORY - 2) : Slot(groups'[x].status, p) # "."]_vars

\* C4 as amended: an advance leaves an all-blank history all blank (so a fresh
\* record stays blank after any number of advances), and after a mark into
\* status[STATUS_POS] and one advance the newest slot is blank and the marked
\* symbol is in slot STATUS_POS - 1.
C4_HistoryShift ==
    [][\A x \in InUse :
        Advance =>
            /\ AllBlank(groups[x].status) => AllBlank(groups'[x].status)
            /\ Slot(groups'[x].status, STATUS_POS) = " "
            /\ Slot(groups[x].status, STATUS_POS) = "."
                => Slot(groups'[x].status, STATUS_POS - 1) = "."]_vars

\* a mark has been shifted one slot to the left
C4_Witness ==
    /\ shifts >= 1
    /\ \E x \in InUse :
        /\ Slot(groups[x].status, STATUS_POS - 1) = "."
        /\ Slot(groups[x].status, STATUS_POS) = " "

\* what the program holds, but for the logs of the termination signals
ProgramVars ==
    <<mainvars, old, join, foreground, running, winchg, width, lpc, rc, signo,
      timer, sigwinch, stats, ticks, shifts, iters, failed>>

\* the iterations completed since the first termination signal
DoneSinceSignal == iters - sigiter + (IF sigmid THEN 1 ELSE 0)

\* the loop has ended on the run-flag, after a termination signal
StoppedBySignal == lpc = "done" /\ nsig >= 1 /\ rc = 0 /\ running = 0

\* C5 as stated: whenever a termination signal comes while the loop iterates,
\* the loop stops after completing exactly one more iteration.
C5_ExactlyOneMoreIteration ==
    (StoppedBySignal /\ sigiter >= 1) => DoneSinceSignal = 1

\* C5 as amended: a termination signal that is not the first changes nothing,
\* and after the first one the loop starts no new iteration: it completes the
\* iteration in progress if there is one, and none otherwise.
C5_IdempotentStop ==
    /\ [][(nsig' = nsig + 1 /\ nsig >= 1) => UNCHANGED ProgramVars]_vars
    /\ [](nsig >= 1 => iters = sigiter)
    /\ [](StoppedBySignal => DoneSinceSignal = (IF sigmid THEN 1 ELSE 0))

\* two signals came inside an iteration and the loop has ended
C5_Witness == StoppedBySignal /\ nsig = 2 /\ sigmid /\ iters = 2

\* C7: over any run the number of shifts applied to each record equals the
\* number of ticks of the timer.
C7_AdvanceOncePerTick == shifts = ticks

\* C8 as stated: whenever the loop ends on the run-flag, in sender and in
\* receiver mode, statistics are printed and loop() returns 0.
C8_StatsPrintedInEveryMode ==
    StoppedBySignal => (ret = 0 /\ stats > 0)

\* C8 as amended: whenever the loop ends on the run-flag, show_stats() is
\* called and loop() returns 0; show_stats() prints the statistics (a line per
\* group and the total) in receiver mode and nothing in sender mode.
C8_SignalShutdown ==
    StoppedBySignal =>
        /\ ret = 0
        /\ stats # NotYet
        /\ join # 0 => stats = group_num + 1
        /\ join = 0 => stats = 0

\* a sender has been stopped by a signal
C8_Witness == StoppedBySignal /\ join = 0 /\ stats = 0 /\ iters >= 1

\* C9: once sender_init(), receiver_init(), sender() or receiver() has
\* returned nonzero, loop() is in no iteration any more, prints no statistics
\* and returns that code; it returns 0 only if none of them returned nonzero.
C9_FailureIsFatal ==
    /\ failed # 0 =>
        /\ lpc \in {"test", "leave", "done"}
        /\ stats = NotYet
        /\ rc = failed
    /\ lpc = "done" => ret = failed

\* sender() or receiver() failed in the second iteration
C9_Witness == lpc = "done" /\ failed = 2 /\ ret = 2 /\ iters = 2

\* the positions that follow a position of an iteration
Follows(pc) ==
    IF pc = "redraw" THEN {"ttsize", "io"}
    ELSE IF pc = "ttsize" THEN {"clear"}
    ELSE IF pc = "clear" THEN {"plot"}
    ELSE IF pc = "plot" THEN {"io"}
    ELSE {"test"}

\* C10: a termination signal only clears the run-flag; the iteration in
\* progress goes on through redraw and the send-or-receive unit, and the flag
\* takes effect at the next test of the loop condition, after which no
\* iteration starts.
C10_CooperativeCancel ==
    /\ [][nsig' # nsig => (running' = 0 /\ lpc' = lpc /\ rc' = rc
                            /\ groups' = groups /\ winchg' = winchg)]_vars
    /\ [][(lpc \in InIteration /\ lpc' # lpc) => lpc' \in Follows(lpc)]_vars
    /\ [][(lpc = "test" /\ running = 0 /\ lpc' # lpc)
            => (lpc' = "leave" /\ iters' = iters)]_vars

\* a signal came inside an iteration, which went on to its end
C10_Witness ==
    lpc = "leave" /\ running = 0 /\ sigmid /\ rc = 0 /\ sigiter = iters

(***************************************************************************)
(* Properties of the checks of main()                                      *)
(***************************************************************************)
\* the bytes of an address in 224.0.0.0/4 or in ff00::/8
IsMulticast(a) ==
    \/ Len(a) = 4 /\ a[1] \div 16 = 14
    \/ Len(a) = 16 /\ a[1] = 255

\* C12: when the run loop is entered, the group of every record in use, as
\* text and as resolved, is a multicast address (224.0.0.0/4 or ff00::/8);
\* a literal that is not multicast never gets that far.
C12_GroupsAreMulticast ==
    mpc = "loop" =>
        \A x \in InUse :
            /\ IsMulticast(TextAddr(groups[x].group))
            /\ IsMulticast(groups[x].grp)

\* C13: a spec is rejected for its count exactly when the count is below 1
\* or group_num plus the count exceeds MAX_NUM_GROUPS; a spec that fills the
\* registry exactly is accepted.
C13_CapacityCheckExact ==
    [][(mpc = "args" /\ i <= Len(argv))
        => ((mpc' = "exit")
                <=> (num' < 1 \/ group_num + num' > MAX_NUM_GROUPS))]_vars

\* C14: group_num stays within 0 .. MAX_NUM_GROUPS, it only grows by one, for
\* the entry written at the index it had, and no entry of groups[] at an
\* index of MAX_NUM_GROUPS or more is written, by the default group, by an
\* expansion or by the resolution.
C14_RegistryBound ==
    [][/\ group_num' \in 0..MAX_NUM_GROUPS
       /\ group_num' # group_num
            => (group_num < MAX_NUM_GROUPS /\ group_num' = group_num + 1)
       /\ (mpc = "resolve" /\ i' # i) => i < MAX_NUM_GROUPS
       /\ DOMAIN groups' = GroupIdx]_vars

\* the fullest registry main() lets through has reached the run loop
C14_Witness ==
    /\ mpc = "loop"
    /\ group_num = MAX_NUM_GROUPS - 1
    /\ \A x \in InUse : groups[x].grp # NoAddr

\* the option is one main() refuses
OptInvalid(o) ==
    \/ o.c = "b" /\ SizeT(atoi(o.optarg)) > BUFSZ
    \/ o.c = "i" /\ Len(o.optarg) > IFNAMSIZ
    \/ o.c = "l" /\ o.optarg \notin LogLevels

\* the messages of the validation errors
ValidationErrors ==
    {"Too long payload", "Too long interface name", "Invalid log level",
     "is not a valid multicast group",
     "Invalid number of groups given, or max reached."}

\* C11: after each validation error main() has returned a nonzero code
\* without the termination handlers installed and without loop() called,
\* and loop() is only called on a command line without an oversized payload,
\* a too long interface name, an unknown log level, an unparseable group, a
\* count below 1 or more groups than the registry holds.
C11_ValidationStops ==
    /\ err # "" =>
        /\ err \in ValidationErrors
        /\ mpc = "exit" /\ ret \notin {0, NotYet}
        /\ lpc = "idle" /\ ~handlers
    /\ (lpc # "idle" \/ handlers) =>
        /\ mpc = "loop" /\ err = ""
        /\ \A k \in 1..Len(optv) : ~OptInvalid(optv[k])
        /\ Len(accepted) = Len(argv)
        /\ \A s \in 1..Len(accepted) :
            /\ accepted[s].num >= 1
            /\ TextAddr(accepted[s].text) # NoAddr
        /\ group_num <= MAX_NUM_GROUPS

\* main() has returned 1 for the interface name of the second option
C11_Witness ==
    /\ mpc = "exit" /\ ret = 1
    /\ err = "Too long interface name"
    /\ optn = 2 /\ ~OptInvalid(optv[1]) /\ OptInvalid(optv[2])
    /\ lpc = "idle" /\ ~handlers

(***************************************************************************)
(* Properties of the plotter and of the resize flag                        *)
(***************************************************************************)
\* fancy output on a terminal
Fancy == old = 0 /\ foreground # 0

\* the window of the rows lies inside status[], the newest slot included
WindowInside == Spos \in 0..STATUS_POS

\* C15 as stated: within a tick the history is advanced before the row of the
\* record is painted, so the row painted shows the history after the shift of
\* that tick.
C15_RowShowsShiftedHistory ==
    [][(Advance /\ old = 0 /\ WindowInside)
        => \A x \in InUse :
            rows'[x].text = CStr(groups'[x].status, Spos)]_vars

\* C15: in fancy output a call of plotter_show() paints the row of every
\* record from the history as the unit of work left it, the mark of the unit
\* in its newest cell, and only then advances the history, which moves that
\* mark one slot towards the oldest.
C15_RowShowsHistoryBeforeShift ==
    [][(Advance /\ old = 0 /\ WindowInside)
        => \A x \in InUse :
            /\ rows'[x].text = CStr(groups[x].status, Spos)
            /\ groups'[x].status = update1(groups[x].status)
            /\ Slot(groups[x].status, STATUS_POS) = "."
                => /\ rows'[x].text[Len(rows'[x].text)] = "."
                   /\ Slot(groups'[x].status, STATUS_POS - 1) = "."
                   /\ Slot(groups'[x].status, STATUS_POS) = " "]_vars

\* a row was painted with the mark of the unit in its newest cell, and the
\* history has been advanced since
C15_Witness ==
    /\ old = 0 /\ shifts >= 1
    /\ \E x \in InUse :
        /\ Len(rows[x].text) = STATUS_HISTORY - 1
        /\ rows[x].text[STATUS_POS + 1] = "."
        /\ Slot(groups[x].status, STATUS_POS - 1) = "."
        /\ Slot(groups[x].status, STATUS_POS) = " "

\* C16 as stated: in every output mode the redraw() of the iteration that
\* finds winchg set calls ttsize() and clears the flag.
C16_ClearedInEveryMode ==
    [][(lpc = "redraw" /\ signo # 0 /\ lpc' # lpc)
        => lpc' = "ttsize"]_vars

\* C16: winchg is set only by sigwinch_cb, which touches nothing else of the
\* program; redraw() is handed the flag as it is at the test of the loop; in
\* fancy output on a terminal a redraw() handed a set flag calls ttsize() and
\* then clears the flag, in plain output and in the background it returns at
\* once, with the flag and the geometry as they were.
C16_ClearedInFancyForeground ==
    /\ [][(winchg' # 0 /\ winchg = 0)
            => /\ lpc \in InLoop /\ sigwinch /\ stale'
               /\ UNCHANGED <<mainvars, optvars, rows, spos, ui>>
               /\ UNCHANGED <<old, join, foreground, running, width, lpc, rc,
                              signo, timer, sigwinch, stats, ticks, shifts,
                              iters, nsig, sigiter, sigmid, failed>>]_vars
    /\ [][(lpc = "test" /\ lpc' = "redraw") => signo' = winchg]_vars
    /\ [][(lpc = "redraw" /\ signo # 0 /\ lpc' # lpc /\ Fancy)
            => (lpc' = "ttsize" /\ winchg' = winchg)]_vars
    /\ [][(lpc = "ttsize" /\ lpc' # lpc)
            => (lpc' = "clear" /\ width' \in Widths /\ ~stale')]_vars
    /\ [][(lpc = "clear" /\ lpc' # lpc) => (winchg' = 0 /\ lpc' = "plot")]_vars
    /\ [][(lpc = "redraw" /\ lpc' # lpc /\ ~Fancy)
            => (lpc' = "io" /\ winchg' = winchg /\ width' = width)]_vars
    /\ [][(winchg # 0 /\ winchg' = 0) => (lpc = "clear" /\ Fancy)]_vars

\* in fancy output on a terminal a redraw() has been handed the set flag, has
\* called ttsize() and has cleared the flag
C16_Witness ==
    Fancy /\ lpc = "plot" /\ signo # 0 /\ winchg = 0 /\ ~stale /\ width = 52

\* C17 as stated: for every width of the terminal the window of the rows
\* starts at a spos within 0 .. STATUS_HISTORY, its width never negative.
C17_WindowInBounds ==
    spos # NotYet => spos \in 0..STATUS_HISTORY

C20_NoLostResize ==
    (Fancy /\ stale) => winchg # 0

\* a history as whole marks and whole advances leave it: blank or marked
\* slots, then the terminator
Intact(st) ==
    /\ st[STATUS_HISTORY] = NUL
    /\ \A p \in 0..(STATUS_HISTORY - 2) : Slot(st, p) \in {" ", "."}

\* C19: the shift of a history is atomic for every other access: but for
\* the record that the update() of the main loop is in the middle of, every
\* history is one that marks and advances run one after another leave, of the
\* fixed length and with the terminator in place.
C19_HistoryIntact ==
    \A x \in InUse :
        (lpc = "blank" /\ x = ui) \/ Intact(groups[x].status)

====
